---- MODULE Spec2Model ----
(***************************************************************************)
(* Model of the rest-latex compile service (src/app/main.py).              *)
(*                                                                         *)
(* A request to POST /compile is a process walking through the statements  *)
(* of compile_latex.  The file system is a map from absolute paths to file *)
(* contents; a path is a sequence of components and a component is a       *)
(* sequence of characters, so that str(), startswith() and lower() are     *)
(* computed on characters as the code computes them.                       *)
(***************************************************************************)
EXTENDS Integers, Sequences, FiniteSets, TLC

(* ---- bounds ---- *)
NumRequests == 2
NumWorkNames == 2
MaxEntries == 2
MaxNameLen == 5

(* ---- characters and names ---- *)
Dot == <<".">>
DotDot == <<".", ".">>
ASSETS_ZIP == <<"a","s","s","e","t","s",".","z","i","p">>
TEX_SUFFIX == <<".","t","e","x">>
PDF_SUFFIX == <<".","p","d","f">>
TMP == <<"t","m","p">>
MKDTEMP_PREFIX == <<"l","a","t","e","x","w","o","r","k","_">>

(* load_settings: latex_main_filename default *)
latex_main_filename == <<"m","a","i","n",".","t","e","x">>

NameA == <<"a">>
NameB == <<"b">>
NameX == <<"x">>
NameE == <<"e">>

SuffixChars == <<"a", "b", "c", "d">>
\* names mkdtemp can return: prefix followed by a random suffix of fixed length
WorkNames == {MKDTEMP_PREFIX \o <<SuffixChars[i]>> : i \in 1..NumWorkNames}
\* a sibling of /tmp/latexwork_a whose name has latexwork_a as a proper string prefix
SiblingName == MKDTEMP_PREFIX \o <<"a", "z">>

None == <<>>

(* ---- str.lower(), str.endswith(), str.startswith(), str.strip() ---- *)
LowerChar(c) ==
    CASE c = "T" -> "t"
      [] c = "E" -> "e"
      [] c = "X" -> "x"
      [] c = "A" -> "a"
      [] OTHER -> c

Lower(s) == [i \in 1..Len(s) |-> LowerChar(s[i])]

StartsWith(s, p) == Len(p) <= Len(s) /\ SubSeq(s, 1, Len(p)) = p

EndsWith(s, p) == Len(p) <= Len(s) /\ SubSeq(s, Len(s) - Len(p) + 1, Len(s)) = p

IsSpace(c) == c \in {" ", "\n"}

RECURSIVE LStrip(_)
LStrip(s) == IF s # <<>> /\ IsSpace(Head(s)) THEN LStrip(Tail(s)) ELSE s

RECURSIVE RStrip(_)
RStrip(s) ==
    IF s # <<>> /\ IsSpace(s[Len(s)]) THEN RStrip(SubSeq(s, 1, Len(s) - 1)) ELSE s

Strip(s) == RStrip(LStrip(s))

(* ---- pathlib: joining, resolve(), str(), with_suffix() ---- *)
\* an archive member name is [abs |-> leading "/", parts |-> components]
PathJoin(dir, name) == IF name.abs THEN name.parts ELSE dir \o name.parts

RECURSIVE ResolveFrom(_, _)
ResolveFrom(acc, parts) ==
    IF parts = <<>> THEN acc
    ELSE LET c == Head(parts) IN
         ResolveFrom(IF c = Dot THEN acc
                     ELSE IF c = DotDot
                          THEN (IF acc = <<>> THEN acc ELSE SubSeq(acc, 1, Len(acc) - 1))
                          ELSE Append(acc, c),
                     Tail(parts))

Resolve(path) == ResolveFrom(<<>>, path)

RECURSIVE PathStr(_)
PathStr(path) ==
    IF path = <<>> THEN <<>> ELSE <<"/">> \o Head(path) \o PathStr(Tail(path))

Str(path) == IF path = <<>> THEN <<"/">> ELSE PathStr(path)

RECURSIVE RFindDot(_, _)
RFindDot(s, i) == IF i = 0 THEN 0 ELSE IF s[i] = "." THEN i ELSE RFindDot(s, i - 1)

\* PurePath.with_suffix(".pdf") applied to a file name
WithSuffixPdf(name) ==
    LET i == RFindDot(name, Len(name)) IN
    IF 1 < i /\ i < Len(name)
    THEN SubSeq(name, 1, i - 1) \o PDF_SUFFIX
    ELSE name \o PDF_SUFFIX

(* ---- the file system ---- *)
\* fs maps the absolute path of every regular file to its content; a content
\* records the request that wrote it and what was written.  dirs holds the
\* workspace directories that exist; any other directory exists exactly when a
\* file lies below it.
Content(r, kind, idx) == [by |-> r, kind |-> kind, idx |-> idx]

EmptyFs == [p \in {} |-> Content(0, "tex", 0)]

IsProperPrefix(p, q) == Len(p) < Len(q) /\ SubSeq(q, 1, Len(p)) = p

IsPrefix(p, q) == Len(p) <= Len(q) /\ SubSeq(q, 1, Len(p)) = p

IsFile(f, p) == p \in DOMAIN f

IsDir(f, d, p) == p \in d \/ \E q \in DOMAIN f : IsProperPrefix(p, q)

\* open(path, "wb") fails when path is a directory or an ancestor is a file
CanWrite(f, d, p) ==
    /\ ~IsDir(f, d, p)
    /\ \A k \in 1..(Len(p) - 1) : ~IsFile(f, SubSeq(p, 1, k))

WriteFile(f, p, c) == [q \in (DOMAIN f) \cup {p} |-> IF q = p THEN c ELSE f[q]]

RemoveFile(f, p) == [q \in (DOMAIN f) \ {p} |-> f[q]]

RemoveTree(f, dir) == [q \in {x \in DOMAIN f : ~IsPrefix(dir, x)} |-> f[q]]

WorkPath(w) == <<TMP, w>>

(* ---- archive members ---- *)
Rel(parts) == [abs |-> FALSE, parts |-> parts]
Abs(parts) == [abs |-> TRUE, parts |-> parts]

EntryNames ==
    { Rel(<<NameA>>),                      \* a
      Rel(<<NameA, NameB>>),               \* a/b
      Rel(<<DotDot, NameX>>),              \* ../x
      Abs(<<NameE>>),                      \* /e
      Rel(<<NameA, DotDot>>),              \* a/..
      Rel(<<Dot>>),                        \* .
      Rel(<<DotDot, SiblingName, NameX>>), \* ../latexwork_az/x
      Rel(<<latex_main_filename>>),        \* main.tex
      Rel(<<ASSETS_ZIP>>),                 \* assets.zip
      Rel(<<WithSuffixPdf(latex_main_filename), NameX>>) } \* main.pdf/x

SmallEntryNames ==
    { Rel(<<NameA>>), Rel(<<DotDot, NameX>>),
      Rel(<<DotDot, SiblingName, NameX>>), Rel(<<latex_main_filename>>) }

ConcEntryNames == { Rel(<<DotDot, SiblingName, NameX>>) }

SeqsUpTo(S, n) == UNION {[1..k -> S] : k \in 0..n}

NoArchive == [kind |-> "none", entries |-> <<>>]
NoFilenameArchive == [kind |-> "nofilename", entries |-> <<>>]
NotZipArchive == [kind |-> "notzip", entries |-> <<>>]
ZipArchive(es) == [kind |-> "zip", entries |-> es]

ArchivesOf(names, n) ==
    {NoArchive, NoFilenameArchive, NotZipArchive} \cup {ZipArchive(es) : es \in SeqsUpTo(names, n)}

(* ---- extract_zip_safely ---- *)
\* line 69-70: the containment test applied to one member
MemberPassesCheck(target_dir, member) ==
    LET resolved_target == Resolve(PathJoin(target_dir, member)) IN
    StartsWith(Str(resolved_target), Str(Resolve(target_dir)))

\* zipfile._extract_member: the member name is stripped of its root and of
\* every "", "." and ".." component, and the rest is joined to the target
ArcName(member) == SelectSeq(member.parts, LAMBDA c : c \notin {Dot, DotDot})

ExtractDest(target_dir, member) == target_dir \o ArcName(member)

\* ZipFile.extractall: members are written in archive order; an OSError stops
\* the extraction and leaves the members written so far
RECURSIVE ExtractAll(_, _, _, _, _, _)
ExtractAll(f, d, target_dir, entries, i, r) ==
    IF i > Len(entries) THEN [fs |-> f, ok |-> TRUE, written |-> i - 1]
    ELSE LET dest == ExtractDest(target_dir, entries[i]) IN
         IF CanWrite(f, d, dest)
         THEN ExtractAll(WriteFile(f, dest, Content(r, "entry", i)), d, target_dir, entries, i + 1, r)
         ELSE [fs |-> f, ok |-> FALSE, written |-> i - 1]

\* each member tested and written in turn
RECURSIVE CheckAndExtract(_, _, _, _, _, _)
CheckAndExtract(f, d, target_dir, entries, i, r) ==
    IF i > Len(entries) THEN [fs |-> f, ok |-> TRUE, written |-> i - 1, unsafe |-> FALSE]
    ELSE IF ~MemberPassesCheck(target_dir, entries[i])
    THEN [fs |-> f, ok |-> FALSE, written |-> i - 1, unsafe |-> TRUE]
    ELSE LET dest == ExtractDest(target_dir, entries[i]) IN
         IF CanWrite(f, d, dest)
         THEN CheckAndExtract(WriteFile(f, dest, Content(r, "entry", i)), d, target_dir, entries, i + 1, r)
         ELSE [fs |-> f, ok |-> FALSE, written |-> i - 1, unsafe |-> FALSE]

ExtractZipInterleaved(f, d, target_dir, entries, r) ==
    CheckAndExtract(f, d, target_dir, entries, 1, r)

\* the whole function: "unsafe" when a member fails the test (nothing is
\* extracted), else the result of extractall
ExtractZipSafelyResult(f, d, target_dir, entries, r) ==
    IF \E i \in 1..Len(entries) : ~MemberPassesCheck(target_dir, entries[i])
    THEN [fs |-> f, ok |-> FALSE, written |-> 0, unsafe |-> TRUE]
    ELSE LET res == ExtractAll(f, d, target_dir, entries, 1, r) IN
         [fs |-> res.fs, ok |-> res.ok, written |-> res.written, unsafe |-> FALSE]

(* ---- requests ---- *)
Requests == 1..NumRequests

\* UploadFile.filename is Optional[str]
NoFilename == [given |-> FALSE, name |-> <<>>]
Filename(s) == [given |-> TRUE, name |-> s]

FilenameChars == {".", "t", "e", "x", "T", "E", "X", "a"}

AllFilenames == {NoFilename} \cup {Filename(s) : s \in SeqsUpTo(FilenameChars, MaxNameLen)}

SomeFilenames ==
    { NoFilename, Filename(<<>>),
      Filename(<<"a",".","t","e","x">>), Filename(<<"A",".","T","e","X">>),
      Filename(<<"t","e","x">>), Filename(<<"a",".","t","e","x","t">>) }

\* what leaves a step: nothing, a raised exception, or the returned Response
NoBody == Content(0, "none", 0)
NoResult ==
    [type |-> "none", status |-> 0, kind |-> "none", message |-> "",
     stdout |-> <<>>, stderr |-> <<>>, body |-> NoBody]
HTTPException(status, message) ==
    [type |-> "HTTPException", status |-> status, kind |-> "str", message |-> message,
     stdout |-> <<>>, stderr |-> <<>>, body |-> NoBody]
HTTPExceptionDict(status, message, out, err) ==
    [type |-> "HTTPException", status |-> status, kind |-> "dict", message |-> message,
     stdout |-> out, stderr |-> err, body |-> NoBody]
OSError ==
    [type |-> "OSError", status |-> 0, kind |-> "none", message |-> "",
     stdout |-> <<>>, stderr |-> <<>>, body |-> NoBody]
PdfResponse(content) ==
    [type |-> "Response", status |-> 200, kind |-> "pdf", message |-> "",
     stdout |-> <<>>, stderr |-> <<>>, body |-> content]

\* captured output of the engine
Outputs == { <<>>, <<" ", "!", "\n">> }

EngineOutcomes == {"notfound", "timeout", "nonzero", "zero"}

NotRun == [outcome |-> "none", stdout |-> <<>>, stderr |-> <<>>]

VARIABLES
    pc,        \* pc[r]: the statement of compile_latex request r executes next
    filename,  \* tex_file.filename
    archive,   \* assets_archive
    work_dir,  \* the path create_work_dir returned, or None
    result,    \* the exception in flight, or the value being returned
    response,  \* what left compile_latex
    fs,        \* regular files
    dirs,      \* workspace directories that exist
    completed, \* what subprocess.run produced for request r
    extracted, \* number of archive members extractall wrote for request r
    trail      \* trail[r]: the calls request r has made, in order

vars == <<pc, filename, archive, work_dir, result, response, fs, dirs, completed, extracted, trail>>

tex_path(r) == Append(work_dir[r], latex_main_filename)
archive_path(r) == Append(work_dir[r], ASSETS_ZIP)
pdf_path(r) == Append(work_dir[r], WithSuffixPdf(latex_main_filename))

Log(r, call) == trail' = [trail EXCEPT ![r] = Append(@, call)]

Goto(r, label) == pc' = [pc EXCEPT ![r] = label]

\* an exception raised inside the try block
Raise(r, e) ==
    /\ result' = [result EXCEPT ![r] = e]
    /\ Goto(r, "except")

Init ==
    /\ pc = [r \in Requests |-> "idle"]
    /\ filename = [r \in Requests |-> NoFilename]
    /\ archive = [r \in Requests |-> NoArchive]
    /\ work_dir = [r \in Requests |-> None]
    /\ result = [r \in Requests |-> NoResult]
    /\ response = [r \in Requests |-> NoResult]
    /\ fs = EmptyFs
    /\ dirs = {}
    /\ completed = [r \in Requests |-> NotRun]
    /\ extracted = [r \in Requests |-> 0]
    /\ trail = [r \in Requests |-> <<>>]

\* a request arrives with its multipart fields
Receive(r, filenames, archives) ==
    /\ pc[r] = "idle"
    /\ \E f \in filenames, a \in archives :
         /\ filename' = [filename EXCEPT ![r] = f]
         /\ archive' = [archive EXCEPT ![r] = a]
    /\ Goto(r, "ensure_tex_extension")
    /\ UNCHANGED <<work_dir, result, response, fs, dirs, completed, extracted, trail>>

\* the test without lower()
TexExtensionOkCaseSensitive(f) ==
    ~(~(f.given /\ f.name # <<>>) \/ ~EndsWith(f.name, TEX_SUFFIX))

\* line 55
TexExtensionOk(f) ==
    ~(~(f.given /\ f.name # <<>>) \/ ~EndsWith(Lower(f.name), TEX_SUFFIX))

\* line 139, outside the try block
EnsureTexExtension(r) ==
    /\ pc[r] = "ensure_tex_extension"
    /\ Log(r, "ensure_tex_extension")
    /\ IF TexExtensionOk(filename[r])
       THEN /\ Goto(r, "create_work_dir")
            /\ UNCHANGED response
       ELSE /\ response' = [response EXCEPT ![r] =
                   HTTPException(400, "Uploaded file must have a .tex extension.")]
            /\ Goto(r, "done")
    /\ UNCHANGED <<filename, archive, work_dir, result, fs, dirs, completed, extracted>>

\* any name, existing or not
AnyNames(f, d) == WorkNames

\* the names mkdtemp may return: those that do not exist yet
FreshNames(f, d) == {w \in WorkNames : ~IsDir(f, d, WorkPath(w)) /\ ~IsFile(f, WorkPath(w))}

\* line 140, outside the try block; mkdtemp raises OSError when it cannot
\* create a directory
CreateWorkDir(r) ==
    /\ pc[r] = "create_work_dir"
    /\ Log(r, "create_work_dir")
    /\ \/ \E w \in FreshNames(fs, dirs) :
            /\ dirs' = dirs \cup {WorkPath(w)}
            /\ work_dir' = [work_dir EXCEPT ![r] = WorkPath(w)]
            /\ Goto(r, "save_tex")
            /\ UNCHANGED response
       \/ /\ response' = [response EXCEPT ![r] = OSError]
          /\ Goto(r, "done")
          /\ UNCHANGED <<dirs, work_dir>>
    /\ UNCHANGED <<filename, archive, result, fs, completed, extracted>>

\* line 146
HasArchive(a) == a.kind \notin {"none", "nofilename"}

\* line 144; write_bytes may raise OSError
SaveTex(r) ==
    /\ pc[r] = "save_tex"
    /\ Log(r, "save_tex")
    /\ \/ /\ fs' = WriteFile(fs, tex_path(r), Content(r, "tex", 0))
          /\ Goto(r, IF HasArchive(archive[r]) THEN "save_archive" ELSE "run_latex_engine")
          /\ UNCHANGED result
       \/ /\ Raise(r, OSError)
          /\ UNCHANGED fs
    /\ UNCHANGED <<filename, archive, work_dir, response, dirs, completed, extracted>>

\* lines 147-148
SaveArchive(r) ==
    /\ pc[r] = "save_archive"
    /\ Log(r, "save_archive")
    /\ \/ /\ fs' = WriteFile(fs, archive_path(r), Content(r, "zip", 0))
          /\ Goto(r, "ensure_zip_is_valid")
          /\ UNCHANGED result
       \/ /\ Raise(r, OSError)
          /\ UNCHANGED fs
    /\ UNCHANGED <<filename, archive, work_dir, response, dirs, completed, extracted>>

\* line 149
EnsureZipIsValid(r) ==
    /\ pc[r] = "ensure_zip_is_valid"
    /\ Log(r, "ensure_zip_is_valid")
    /\ IF archive[r].kind = "zip"
       THEN Goto(r, "extract_zip_safely") /\ UNCHANGED result
       ELSE Raise(r, HTTPException(400, "Provided assets archive is not a valid ZIP file."))
    /\ UNCHANGED <<filename, archive, work_dir, response, fs, dirs, completed, extracted>>

\* line 150
ExtractZipSafely(r) ==
    /\ pc[r] = "extract_zip_safely"
    /\ Log(r, "extract_zip_safely")
    /\ LET res == ExtractZipSafelyResult(fs, dirs, work_dir[r], archive[r].entries, r) IN
         /\ fs' = res.fs
         /\ extracted' = [extracted EXCEPT ![r] = res.written]
         /\ IF res.unsafe THEN Raise(r, HTTPException(400, "Archive contains unsafe paths."))
            ELSE IF ~res.ok THEN Raise(r, OSError)
            ELSE Goto(r, "unlink") /\ UNCHANGED result
    /\ UNCHANGED <<filename, archive, work_dir, response, dirs, completed>>

\* the archive left in place
UnlinkKeepsArchive(r) ==
    /\ pc[r] = "unlink"
    /\ Log(r, "unlink")
    /\ Goto(r, "run_latex_engine")
    /\ UNCHANGED <<filename, archive, work_dir, result, response, fs, dirs, completed, extracted>>

\* line 151
Unlink(r) ==
    /\ pc[r] = "unlink"
    /\ Log(r, "unlink")
    /\ fs' = RemoveFile(fs, archive_path(r))
    /\ Goto(r, "run_latex_engine")
    /\ UNCHANGED <<filename, archive, work_dir, result, response, dirs, completed, extracted>>

\* the timeout reported as a plain server error
EngineErrorNoTimeoutStatus(outcome, out, err) ==
    CASE outcome = "notfound" -> HTTPException(500, "LaTeX engine executable not found.")
      [] outcome = "timeout" -> HTTPException(500, "LaTeX compilation timed out.")
      [] outcome = "nonzero" ->
            HTTPExceptionDict(400, "LaTeX compilation failed.", Strip(out), Strip(err))
      [] OTHER -> NoResult

\* lines 113-124: the exception run_latex_engine raises for an outcome
EngineError(outcome, out, err) ==
    CASE outcome = "notfound" -> HTTPException(500, "LaTeX engine executable not found.")
      [] outcome = "timeout" -> HTTPException(504, "LaTeX compilation timed out.")
      [] outcome = "nonzero" ->
            HTTPExceptionDict(400, "LaTeX compilation failed.", Strip(out), Strip(err))
      [] OTHER -> NoResult

\* line 153: the engine runs once; it may leave a PDF in the output directory
RunLatexEngine(r, outcomes, outputs) ==
    /\ pc[r] = "run_latex_engine"
    /\ Log(r, "run_latex_engine")
    /\ \E outcome \in outcomes, wrote \in BOOLEAN, out \in outputs, err \in outputs :
         /\ outcome = "notfound" => ~wrote /\ out = <<>> /\ err = <<>>
         /\ wrote => CanWrite(fs, dirs, pdf_path(r))
         /\ fs' = IF wrote THEN WriteFile(fs, pdf_path(r), Content(r, "pdf", 0)) ELSE fs
         /\ completed' = [completed EXCEPT ![r] =
                [outcome |-> outcome, stdout |-> out, stderr |-> err]]
         /\ IF outcome = "zero"
            THEN Goto(r, "build_pdf_response") /\ UNCHANGED result
            ELSE Raise(r, EngineError(outcome, out, err))
    /\ UNCHANGED <<filename, archive, work_dir, response, dirs, extracted>>

\* lines 154-157; read_bytes raises OSError on a directory
BuildPdfResponse(r) ==
    /\ pc[r] = "build_pdf_response"
    /\ Log(r, "build_pdf_response")
    /\ IF ~(IsFile(fs, pdf_path(r)) \/ IsDir(fs, dirs, pdf_path(r)))
       THEN Raise(r, HTTPException(500, "PDF output missing after compilation."))
       ELSE IF IsFile(fs, pdf_path(r))
       THEN /\ result' = [result EXCEPT ![r] = PdfResponse(fs[pdf_path(r)])]
            /\ Goto(r, "finally")
       ELSE Raise(r, OSError)
    /\ UNCHANGED <<filename, archive, work_dir, response, fs, dirs, completed, extracted>>

\* lines 158-161
Recover(e) ==
    IF e.type = "HTTPException" THEN e
    ELSE HTTPException(500, "Unexpected error during compilation.")

\* the handler without its finally clause
ExceptSkipFinally(r) ==
    /\ pc[r] = "except"
    /\ response' = [response EXCEPT ![r] = Recover(result[r])]
    /\ Goto(r, "done")
    /\ UNCHANGED <<filename, archive, work_dir, result, fs, dirs, completed, extracted, trail>>

Except(r) ==
    /\ pc[r] = "except"
    /\ result' = [result EXCEPT ![r] = Recover(@)]
    /\ Goto(r, "finally")
    /\ UNCHANGED <<filename, archive, work_dir, response, fs, dirs, completed, extracted, trail>>

\* cleanup placed on the success path only
FinallyOnSuccessOnly(r) ==
    /\ pc[r] = "finally"
    /\ IF result[r].type = "Response"
       THEN /\ Log(r, "rmtree")
            /\ fs' = RemoveTree(fs, work_dir[r])
            /\ dirs' = dirs \ {work_dir[r]}
       ELSE UNCHANGED <<fs, dirs, trail>>
    /\ response' = [response EXCEPT ![r] = result[r]]
    /\ Goto(r, "done")
    /\ UNCHANGED <<filename, archive, work_dir, result, completed, extracted>>

\* lines 162-163: rmtree with ignore_errors=True never raises; when removal
\* fails the tree is left behind
Finally(r) ==
    /\ pc[r] = "finally"
    /\ Log(r, "rmtree")
    /\ \/ /\ fs' = RemoveTree(fs, work_dir[r])
          /\ dirs' = dirs \ {work_dir[r]}
       \/ UNCHANGED <<fs, dirs>>
    /\ response' = [response EXCEPT ![r] = result[r]]
    /\ Goto(r, "done")
    /\ UNCHANGED <<filename, archive, work_dir, result, completed, extracted>>

Step(r, outcomes, outputs) ==
    \/ EnsureTexExtension(r)
    \/ CreateWorkDir(r)
    \/ SaveTex(r)
    \/ SaveArchive(r)
    \/ EnsureZipIsValid(r)
    \/ ExtractZipSafely(r)
    \/ Unlink(r)
    \/ RunLatexEngine(r, outcomes, outputs)
    \/ BuildPdfResponse(r)
    \/ Except(r)
    \/ Finally(r)

\* one request, every archive of up to MaxEntries members
Next ==
    \/ Receive(1, SomeFilenames, ArchivesOf(EntryNames, MaxEntries))
    \/ Step(1, EngineOutcomes, Outputs)

Spec == Init /\ [][Next]_vars

\* one request, every file name of up to MaxNameLen characters
NextTex ==
    \/ Receive(1, AllFilenames, ArchivesOf(SmallEntryNames, 1))
    \/ Step(1, EngineOutcomes, {<<>>})

SpecTex == Init /\ [][NextTex]_vars

\* concurrent requests, each with or without a one-member archive, the engine
\* exiting zero or timing out, with or without a PDF
NextConc ==
    \E r \in Requests :
        \/ Receive(r, {Filename(<<"a",".","t","e","x">>)},
                   {NoArchive} \cup {ZipArchive(<<e>>) : e \in ConcEntryNames})
        \/ Step(r, {"zero", "timeout"}, {<<>>})

SpecConc == Init /\ [][NextConc]_vars

(* ---- properties ---- *)
Count(seq, x) == Cardinality({i \in DOMAIN seq : seq[i] = x})

Called(r, call) == \E i \in DOMAIN trail[r] : trail[r][i] = call

\* what request r produced so far: the response once it has left the handler
Outcome(r) == IF pc[r] = "done" THEN response[r] ELSE result[r]

TexRejection == HTTPException(400, "Uploaded file must have a .tex extension.")
UnsafeRejection == HTTPException(400, "Archive contains unsafe paths.")
Unexpected == HTTPException(500, "Unexpected error during compilation.")

\* C1: a request that obtained a workspace calls rmtree on it exactly once, as
\* its last step, on every exit path; rmtree is not called before the request
\* ends, and it raises nothing: what leaves the handler is what the try block
\* produced.
C1_WorkspaceDestroyedOnce ==
    \A r \in Requests :
        work_dir[r] # None =>
            /\ Count(trail[r], "rmtree") = (IF pc[r] = "done" THEN 1 ELSE 0)
            /\ pc[r] = "done" =>
                  /\ trail[r][Len(trail[r])] = "rmtree"
                  /\ response[r] = result[r]
                  /\ response[r].type \in {"HTTPException", "Response"}

\* the engine timed out and the workspace was removed afterwards
C1_Witness ==
    /\ pc[1] = "done"
    /\ response[1] = HTTPException(504, "LaTeX compilation timed out.")
    /\ Count(trail[1], "rmtree") = 1
    /\ work_dir[1] \notin dirs

\* "ends in .tex compared case-insensitively", stated on the characters
EndsInDotTex(name) ==
    LET n == Len(name) IN
    /\ n >= 4
    /\ name[n - 3] = "."
    /\ name[n - 2] \in {"t", "T"}
    /\ name[n - 1] \in {"e", "E"}
    /\ name[n] \in {"x", "X"}

\* C2: a request whose tex_file filename is missing, empty or does not end in
\* ".tex" (any letter case) is rejected with the 400 before a workspace exists
\* and before anything is written; a filename that ends in ".tex" in any
\* letter case passes validation.
C2_TexNameValidation ==
    \A r \in Requests :
        pc[r] \notin {"idle", "ensure_tex_extension"} =>
            IF filename[r].given /\ EndsInDotTex(filename[r].name)
            THEN ~(pc[r] = "done" /\ response[r] = TexRejection) /\ Len(trail[r]) >= 1
            ELSE /\ pc[r] = "done"
                 /\ response[r] = TexRejection
                 /\ work_dir[r] = None
                 /\ trail[r] = <<"ensure_tex_extension">>
                 /\ fs = EmptyFs
                 /\ dirs = {}

\* a name ending in ".te" was rejected
C2_Witness ==
    /\ pc[1] = "done"
    /\ filename[1] = Filename(<<"a", ".", "t", "e">>)
    /\ response[1] = TexRejection

\* a mixed-case name passed and its main file was written
C2_WitnessAccepted ==
    /\ filename[1] = Filename(<<"a", ".", "T", "e", "X">>)
    /\ work_dir[1] # None
    /\ IsFile(fs, tex_path(1))

\* C3 as stated: every finished request made the workspace-destroy transition
\* exactly once, whatever the state in which it failed.
C3_Original ==
    \A r \in Requests : pc[r] = "done" => Count(trail[r], "rmtree") = 1

\* C3 amended: a finished request made the destroy transition exactly once, as
\* its last transition, when a workspace had been created for it, and never
\* when it was rejected by the main-file validation or workspace creation
\* failed; no request makes the transition twice.
C3_DestroyIffWorkspace ==
    \A r \in Requests :
        /\ Count(trail[r], "rmtree") <= 1
        /\ pc[r] = "done" =>
              IF Called(r, "save_tex")
              THEN /\ work_dir[r] # None
                   /\ Count(trail[r], "rmtree") = 1
                   /\ trail[r][Len(trail[r])] = "rmtree"
              ELSE /\ work_dir[r] = None
                   /\ Count(trail[r], "rmtree") = 0
                   /\ \/ trail[r] = <<"ensure_tex_extension">> /\ response[r] = TexRejection
                      \/ trail[r] = <<"ensure_tex_extension", "create_work_dir">>
                            /\ response[r] = OSError

\* a request failed in the archive validation and was destroyed once
C3_Witness ==
    /\ pc[1] = "done"
    /\ response[1] = HTTPException(400, "Provided assets archive is not a valid ZIP file.")
    /\ Count(trail[1], "rmtree") = 1

SomeMemberFailsCheck(r) ==
    \E i \in 1..Len(archive[r].entries) : ~MemberPassesCheck(work_dir[r], archive[r].entries[i])

\* C4: when at least one member of the archive fails the containment test,
\* extract_zip_safely ends with the 400 "Archive contains unsafe paths." and no
\* member of the archive has been written, the safe ones before it included.
C4_AllOrNothing ==
    \A r \in Requests :
        (Called(r, "extract_zip_safely") /\ SomeMemberFailsCheck(r)) =>
            /\ Outcome(r) = UnsafeRejection
            /\ extracted[r] = 0
            /\ \A p \in DOMAIN fs : ~(fs[p].kind = "entry" /\ fs[p].by = r)

\* a safe member followed by a traversal: rejected, with only the two uploads
\* in the workspace
C4_Witness ==
    /\ pc[1] = "except"
    /\ archive[1] = ZipArchive(<<Rel(<<NameA>>), Rel(<<DotDot, NameX>>)>>)
    /\ result[1] = UnsafeRejection
    /\ DOMAIN fs = {tex_path(1), archive_path(1)}

\* the resolved destination lies strictly within the resolved target
StrictlyWithin(target_dir, member) ==
    IsProperPrefix(Resolve(target_dir), Resolve(PathJoin(target_dir, member)))

\* C5 as stated: the archive is rejected whenever the resolved destination of a
\* member does not lie strictly within the workspace.
C5_Original ==
    \A r \in Requests :
        (Called(r, "extract_zip_safely")
           /\ \E i \in 1..Len(archive[r].entries) :
                 ~StrictlyWithin(work_dir[r], archive[r].entries[i]))
        => Outcome(r) = UnsafeRejection

\* t is s without its leading and trailing whitespace
IsTrimOf(t, s) ==
    /\ t # <<>> => ~IsSpace(t[1]) /\ ~IsSpace(t[Len(t)])
    /\ \E i \in 1..(Len(s) + 1) :
          /\ i + Len(t) - 1 <= Len(s)
          /\ SubSeq(s, i, i + Len(t) - 1) = t
          /\ \A k \in 1..Len(s) : (k < i \/ k > i + Len(t) - 1) => IsSpace(s[k])

\* the part of C6 about an engine that could not be run, timed out or failed
EngineFailureMapping(r) ==
    /\ completed[r].outcome = "notfound" =>
          result[r] = HTTPException(500, "LaTeX engine executable not found.")
    /\ completed[r].outcome = "timeout" =>
          result[r] = HTTPException(504, "LaTeX compilation timed out.")
    /\ completed[r].outcome = "nonzero" =>
          /\ result[r].type = "HTTPException" /\ result[r].status = 400
          /\ result[r].kind = "dict" /\ result[r].message = "LaTeX compilation failed."
          /\ IsTrimOf(result[r].stdout, completed[r].stdout)
          /\ IsTrimOf(result[r].stderr, completed[r].stderr)

OnlySuccessIs200(r) ==
    (pc[r] = "done" /\ response[r].status = 200) =>
        /\ completed[r].outcome = "zero"
        /\ response[r].type = "Response" /\ response[r].body.kind \in {"pdf", "entry"}

\* C6 as stated: the status follows from the engine outcome, and after exit
\* zero the answer is the 500 "PDF output missing" when the PDF is absent and
\* the 200 with the PDF when it is present.
C6_Original ==
    \A r \in Requests :
        /\ OnlySuccessIs200(r)
        /\ pc[r] = "finally" =>
              /\ EngineFailureMapping(r)
              /\ completed[r].outcome = "zero" =>
                    IF IsFile(fs, pdf_path(r))
                    THEN result[r] = PdfResponse(fs[pdf_path(r)])
                    ELSE result[r] = HTTPException(500, "PDF output missing after compilation.")

\* C6 amended: as stated, except that after exit zero the 500 "PDF output
\* missing" is given when nothing exists at the PDF path, the 200 when a
\* regular file is there, and the generic 500 when the path exists but is not
\* a readable file (a directory left there by the archive).
C6_StatusByEngineOutcome ==
    \A r \in Requests :
        /\ OnlySuccessIs200(r)
        /\ pc[r] = "finally" =>
              /\ EngineFailureMapping(r)
              /\ completed[r].outcome = "zero" =>
                    IF IsFile(fs, pdf_path(r))
                    THEN result[r] = PdfResponse(fs[pdf_path(r)])
                    ELSE IF IsDir(fs, dirs, pdf_path(r))
                    THEN result[r] = Unexpected
                    ELSE result[r] = HTTPException(500, "PDF output missing after compilation.")

\* the engine failed with output surrounded by whitespace
C6_Witness ==
    /\ pc[1] = "finally"
    /\ completed[1] = [outcome |-> "nonzero", stdout |-> <<" ", "!", "\n">>, stderr |-> <<>>]
    /\ result[1].status = 400
    /\ result[1].stdout = <<"!">>

InFlight(r) == work_dir[r] # None /\ pc[r] # "done"

\* C7: every request in flight past create_work_dir holds one existing
\* workspace directory, no two of them hold the same one, every file in the
\* workspace of a request in flight was written by that request, and every
\* file a request wrote lies in its own workspace.
C7_WorkspaceIsolation ==
    /\ \A r \in Requests :
          InFlight(r) =>
              /\ work_dir[r] \in dirs
              /\ \A q \in Requests \ {r} : InFlight(q) => work_dir[q] # work_dir[r]
              /\ \A p \in DOMAIN fs : IsPrefix(work_dir[r], p) => fs[p].by = r
    /\ \A p \in DOMAIN fs : IsPrefix(work_dir[fs[p].by], p)

\* two requests in flight at once, each with its files in its own directory
C7_Witness ==
    /\ pc[1] = "build_pdf_response" /\ pc[2] = "run_latex_engine"
    /\ IsFile(fs, pdf_path(1)) /\ IsFile(fs, tex_path(2))
    /\ work_dir[1] # work_dir[2]

\* request 2 was given the directory name request 1 had used and removed
C7_WitnessReuse ==
    /\ pc[1] = "done" /\ InFlight(2)
    /\ work_dir[1] = work_dir[2]

C9_Original ==
    \A r \in Requests :
        pc[r] = "done" => response[r].type \in {"HTTPException", "Response"}

\* C10 as stated: when the engine is about to be invoked, the main file holds
\* the bytes of the uploaded tex_file.
C10_Original ==
    \A r \in Requests :
        pc[r] = "run_latex_engine" =>
            /\ IsFile(fs, tex_path(r))
            /\ fs[tex_path(r)] = Content(r, "tex", 0)

====
